---- MODULE Spec2Model ----
(***************************************************************************)
(* A model of assign-pull-requests.py: the triage of one pull request      *)
(* (assign_one) against the issue tracker, the reference tree and the      *)
(* bug tracker, and the repeated runs of the script over that issue.       *)
(*                                                                         *)
(* Strings the code takes apart are sequences of tokens: a title is a      *)
(* sequence of characters in which "p" stands for the text                 *)
(* `please reassign` and "n" for the text `noci` ("P", "N" their upper     *)
(* case); a path is its sequence of segments; an address is                *)
(* <<local, "@", domain>>; a display string is the sequence of the pieces  *)
(* map_dev and map_proj concatenate.                                       *)
(***************************************************************************)
EXTENDS Integers, Sequences, FiniteSets, TLC

VARIABLES
    \* the issue on the tracker
    title, labels, comments, assignee,
    \* the pull request: submitter, changed files, commits
    pr,
    \* assign_one's position and its local variables
    pc, raised, assignee_limit, bug_limit,
    areas, packages, metadata_xml_files, todo,
    pkg_maints, unique_maints, totally_all_maints,
    new_package, existing_package, maint_needed, cant_assign,
    not_self_maintained, invalid_email, invalid_bug_linked,
    bugs, security, missing_signoff, verified, body, adding,
    \* the history of the runs
    runs, mutated, startMarker, startLabels, settled, prev, goal, pending

tracker == <<title, labels, comments, assignee>>
scanned == <<areas, packages, metadata_xml_files>>
resolved == <<pkg_maints, unique_maints, totally_all_maints,
              new_package, existing_package, maint_needed, cant_assign,
              not_self_maintained>>
reported == <<invalid_email, invalid_bug_linked, bugs, security,
              missing_signoff, verified, body>>
locals == <<raised, assignee_limit, bug_limit, scanned, todo, resolved,
            reported, adding>>
history == <<runs, mutated, startMarker, startLabels, settled, prev, goal,
             pending>>
vars == <<tracker, pr, pc, locals, history>>

\* ------------------------------------------------------------- bounds
\* runs of the script over the issue
MaxRuns == 2
\* changed files of a pull request in the file-scan specification
MaxFiles == 2

\* ---------------------------------------------------------- constants
assignee_limit_default == 5
bug_limit_default == 5
no_limit == 9999
shown_packages == 5

None == "(none)"

\* ------------------------------------------------------------ helpers
Range(s) == {s[i] : i \in 1..Len(s)}

Contains(s, sub) ==
    \E i \in 0..(Len(s) - Len(sub)) :
        \A j \in 1..Len(sub) : s[i + j] = sub[j]

RECURSIVE SeqsUpTo(_, _)
SeqsUpTo(S, n) ==
    IF n = 0 THEN {<<>>}
    ELSE LET shorter == SeqsUpTo(S, n - 1)
         IN  shorter \cup {Append(s, x) : s \in shorter, x \in S}

\* The order of str: the segments and display pieces the model uses, in
\* code-point order.
TokOrder ==
    <<" ", "@", "[at]", "alice", "app-foo", "bob", "carol", "dev-bar", "duo",
      "example.org", "fresh", "gentoo.org", "gentoo/proj", "lib", "newbie",
      "orphan",
      "oud", "own", "proj", "sub", "x", "~~", "~~[">>

TokRank(t) ==
    IF t \in Range(TokOrder)
    THEN CHOOSE i \in 1..Len(TokOrder) : TokOrder[i] = t
    ELSE 0

RECURSIVE StrLess(_, _)
StrLess(a, b) ==
    IF a = <<>> THEN b # <<>>
    ELSE IF b = <<>> THEN FALSE
    ELSE IF Head(a) = Head(b) THEN StrLess(Tail(a), Tail(b))
    ELSE TokRank(Head(a)) < TokRank(Head(b))

\* sorted(): of a set, and of a list (duplicates kept).
RECURSIVE SortedSet(_)
SortedSet(S) ==
    IF S = {} THEN <<>>
    ELSE LET m == CHOOSE x \in S : \A y \in S \ {x} : StrLess(x, y)
         IN  <<m>> \o SortedSet(S \ {m})

RECURSIVE Insert(_, _)
Insert(x, s) ==
    IF s = <<>> THEN <<x>>
    ELSE IF StrLess(Head(s), x) THEN <<Head(s)>> \o Insert(x, Tail(s))
    ELSE <<x>> \o s

RECURSIVE Sorted(_)
Sorted(s) == IF s = <<>> THEN <<>> ELSE Insert(Head(s), Sorted(Tail(s)))

\* ------------------------------------------------------------- title
Lower(c) == IF c = "P" THEN "p" ELSE IF c = "N" THEN "n" ELSE c
LowerStr(s) == [i \in 1..Len(s) |-> Lower(s[i])]

ReassignMarker == <<"[", "p", "]">>
NociMarker == <<"[", "n", "]">>

HasReassign(t) == Contains(LowerStr(t), ReassignMarker)
HasNoci(t) == Contains(LowerStr(t), NociMarker)

RECURSIVE DropSpaces(_)
DropSpaces(s) ==
    IF s # <<>> /\ Head(s) = " " THEN DropSpaces(Tail(s)) ELSE s

\* re.sub(r'\s*\[please reassign\]\s*', '', title, flags=re.IGNORECASE):
\* one pass from the left, over non-overlapping matches.
RECURSIVE StripReassign(_)
StripReassign(s) ==
    IF s = <<>> THEN <<>>
    ELSE LET rest == DropSpaces(s)
         IN  IF Len(rest) >= 3 /\ LowerStr(SubSeq(rest, 1, 3)) = ReassignMarker
             THEN StripReassign(DropSpaces(SubSeq(rest, 4, Len(rest))))
             ELSE <<Head(s)>> \o StripReassign(Tail(s))

\* --------------------------------------------------- identity mapper
LowerTok(t) ==
    CASE t = "Alice" -> "alice"
      [] t = "Gentoo.org" -> "gentoo.org"
      [] t = "Gentoo/Proj" -> "gentoo/proj"
      [] OTHER -> t
LowerAddr(a) == [i \in 1..Len(a) |-> LowerTok(a[i])]

\* str.strip()
RECURSIVE StripRight(_)
StripRight(s) ==
    IF s # <<>> /\ s[Len(s)] = " " THEN StripRight(SubSeq(s, 1, Len(s) - 1)) ELSE s
Strip(s) == StripRight(DropSpaces(s))

\* the developer mapping (proxied maintainers merged in) and the project one
dev_mapping ==
    (<<"sub", "@", "example.org">> :> "sub")
    @@ (<<"alice", "@", "gentoo.org">> :> "alice")
    @@ (<<"carol", "@", "gentoo.org">> :> "carol")
proj_mapping ==
    (<<"proj", "@", "gentoo.org">> :> "Gentoo/Proj")

EndsWithGentoo(a) ==
    Len(a) >= 2 /\ a[Len(a) - 1] = "@" /\ a[Len(a)] = "gentoo.org"
ReplaceAt(a) == [i \in 1..Len(a) |-> IF a[i] = "@" THEN "[at]" ELSE a[i]]

Unmapped(a) ==
    IF EndsWithGentoo(a) THEN SubSeq(a, 1, Len(a) - 2) ELSE ReplaceAt(a)

map_dev(dev, mapping) ==
    IF LowerAddr(dev) \in DOMAIN mapping
    THEN <<"@", mapping[LowerAddr(dev)]>>
    ELSE <<"~~">> \o Unmapped(dev) \o <<"~~">>

map_proj(proj, mapping) ==
    IF LowerAddr(proj) \in DOMAIN mapping
    THEN <<"@", LowerTok(mapping[LowerAddr(proj)])>>
    ELSE <<"~~[">> \o Unmapped(proj) \o <<" (project)]~~">>

HasAt(display) == "@" \in Range(display)

\* ---------------------------------------------------- reference tree
categories == {"app-foo", "dev-bar"}

\* An element of a metadata.xml root: its tag, its type attribute, the text
\* of its email child, its own text and the tags of its children.
Maintainer(email, type) ==
    [tag |-> "maintainer", type |-> type, email |-> email, text |-> "",
     children |-> <<"email">>]
Described(email, type) ==
    [tag |-> "maintainer", type |-> type, email |-> email, text |-> "",
     children |-> <<"email", "description">>]
Other(tag) ==
    [tag |-> tag, type |-> None, email |-> <<>>, text |-> "x", children |-> <<>>]

Sub == <<"sub", "@", "example.org">>
Alice == <<"alice", "@", "gentoo.org">>
Bob == <<"bob", "@", "gentoo.org">>
Carol == <<"carol", "@", "gentoo.org">>
Proj == <<"proj", "@", "gentoo.org">>
Newbie == <<"newbie", "@", "example.org">>

\* <ref_repo_path>/<category>/<name>/metadata.xml, the root's children; a
\* package outside the domain has no metadata.xml.
Tree ==
    (<<"app-foo", "own">> :> <<Maintainer(Sub, "person")>>)
    @@ (<<"app-foo", "duo">> :>
            <<Maintainer(Sub, "person"), Described(Alice, "person")>>)
    @@ (<<"app-foo", "oud">> :>
            <<Maintainer(<<"Alice", "@", "Gentoo.org">>, "person"),
              Maintainer(Sub, "person")>>)
    @@ (<<"app-foo", "alice">> :>
            <<Other("longdescription"), Maintainer(Alice, "person")>>)
    @@ (<<"app-foo", "bob">> :> <<Maintainer(Bob \o <<" ">>, "person")>>)
    @@ (<<"app-foo", "proj">> :> <<Maintainer(Proj, "project")>>)
    @@ (<<"app-foo", "carol">> :> <<Maintainer(Carol, "person")>>)
    @@ (<<"app-foo", "orphan">> :> <<Other("longdescription")>>)

RawUrl(path) == <<"raw">> \o path

Parsed(root) == [ok |-> TRUE, root |-> root]
XMLSyntaxError == [ok |-> FALSE, root |-> <<>>]

\* What lxml.etree.parse(urlopen(raw_url)) yields: the pull request's version
\* of a package's metadata.xml.
Fetch(url) ==
    LET p == SubSeq(url, 2, 3)
    IN  CASE p = <<"app-foo", "fresh">> -> Parsed(<<Maintainer(Sub, "person")>>)
          [] p = <<"app-foo", "bob">> -> Parsed(<<Maintainer(Newbie, "person")>>)
          [] p = <<"app-foo", "carol">> -> XMLSyntaxError
          [] p \in DOMAIN Tree -> Parsed(Tree[p])
          [] OTHER -> Parsed(<<>>)

\* The addresses that have a Bugzilla account (logins compare without case).
Accounts == {Sub, Alice, Carol, Proj}
HasAccount(mail) == LowerAddr(mail) \in Accounts

\* ----------------------------------------------------- path classifier
\* One pass of the loop over pr.get_files(): the sets after the file; raised
\* where the code reads path[1] of a one-segment path (IndexError).
ScanFile(path, acc) ==
    IF path[1] \in categories
    THEN IF Len(path) < 2 THEN [acc EXCEPT !.raised = TRUE]
         ELSE LET withEbuilds == [acc EXCEPT !.areas = @ \cup {"ebuilds"}]
              IN  IF path[2] = "metadata.xml"
                  THEN [withEbuilds EXCEPT !.areas = @ \cup {"category-metadata"}]
                  ELSE IF Len(path) <= 2
                  THEN [withEbuilds EXCEPT !.areas = @ \cup {"other files"}]
                  ELSE [withEbuilds EXCEPT
                          !.metadata_xml_files =
                              IF path[3] = "metadata.xml"
                              THEN @ \cup {RawUrl(path)} ELSE @,
                          !.packages = @ \cup {SubSeq(path, 1, 2)}]
    ELSE IF path[1] = "eclass"
    THEN [acc EXCEPT !.areas = @ \cup {"eclasses"}]
    ELSE IF path[1] = "profiles"
    THEN IF Len(path) < 2 THEN [acc EXCEPT !.raised = TRUE]
         ELSE IF path[2] # "use.local.desc"
         THEN [acc EXCEPT !.areas = @ \cup {"profiles"}]
         ELSE acc
    ELSE IF path[1] = "metadata"
    THEN IF Len(path) < 2 THEN [acc EXCEPT !.raised = TRUE]
         ELSE IF path[2] \notin {"md5-cache", "pkg_desc_index"}
         THEN [acc EXCEPT !.areas = @ \cup {"other files"}]
         ELSE acc
    ELSE [acc EXCEPT !.areas = @ \cup {"other files"}]

EmptyScan ==
    [areas |-> {}, packages |-> {}, metadata_xml_files |-> {}, raised |-> FALSE]

\* for f in pr.get_files(): the exception ends the loop (and the run).
RECURSIVE ScanFrom(_, _)
ScanFrom(files, acc) ==
    IF files = <<>> \/ acc.raised THEN acc
    ELSE ScanFrom(Tail(files), ScanFile(Head(files), acc))

ScanFiles(files) == ScanFrom(files, EmptyScan)

\* -------------------------------------------------- maintainer resolver
NewPackageGroup == <<<<"@", "gentoo/proxy-maint", " (new package)">>>>
MaintainerNeededGroup == <<<<"@", "gentoo/proxy-maint", " (maintainer needed)">>>>

Handle(login) == <<"@", login>>

IsMaintainer(m) == m.tag = "maintainer"

RECURSIVE Times(_, _)
Times(n, s) == IF n = 0 THEN <<>> ELSE s \o Times(n - 1, s)

\* ms for one maintainer element. The loop over its children tests the tag
\* and the lang of the element itself (`maintainer`, no lang), once a child.
Display(m) ==
    LET ms == IF m.type = "project" THEN map_proj(m.email, proj_mapping)
              ELSE map_dev(m.email, dev_mapping)
    IN  IF m.tag = "description"
        THEN ms \o Times(Len(m.children), <<" (", m.text, ")">>)
        ELSE ms

AllMs(root) ==
    LET ms == SelectSeq(root, IsMaintainer)
    IN  [i \in 1..Len(ms) |-> Display(ms[i])]

Emails(root) == {Strip(m.email) : m \in {x \in Range(root) : IsMaintainer(x)}}

EmptyResolution ==
    [pkg_maints |-> [p \in {} |-> <<>>],
     unique_maints |-> {},
     totally_all_maints |-> {},
     new_package |-> FALSE,
     existing_package |-> FALSE,
     maint_needed |-> FALSE,
     cant_assign |-> FALSE,
     not_self_maintained |-> FALSE,
     broke |-> FALSE]

BreakAtLimit(unique, limit) == Cardinality(unique) >= limit

\* The loop leaves by break once unique_maints holds more than limit groups.
BreakAt(unique, limit) == Cardinality(unique) > limit

\* One pass of `for p in packages` for package p.
ResolvePackage(p, acc, login, limit) ==
    IF p \notin DOMAIN Tree
    THEN [acc EXCEPT !.pkg_maints = (p :> NewPackageGroup) @@ @,
                     !.new_package = TRUE]
    ELSE LET all_ms == AllMs(Tree[p])
             seen == [acc EXCEPT !.existing_package = TRUE,
                                 !.totally_all_maints = @ \cup Emails(Tree[p])]
         IN  IF all_ms # <<>>
             THEN LET unique == acc.unique_maints \cup {Sorted(all_ms)}
                  IN  [seen EXCEPT
                         !.cant_assign =
                             @ \/ ~ \E i \in 1..Len(all_ms) : HasAt(all_ms[i]),
                         !.pkg_maints = (p :> all_ms) @@ @,
                         !.not_self_maintained =
                             @ \/ Handle(login) \notin Range(all_ms),
                         !.unique_maints = unique,
                         !.broke = BreakAt(unique, limit)]
             ELSE [seen EXCEPT !.pkg_maints = (p :> MaintainerNeededGroup) @@ @,
                               !.maint_needed = TRUE]

\* The whole loop over the packages in one iteration order.
RECURSIVE ResolveAll(_, _, _, _)
ResolveAll(order, acc, login, limit) ==
    IF order = <<>> \/ acc.broke THEN acc
    ELSE ResolveAll(Tail(order), ResolvePackage(Head(order), acc, login, limit),
                    login, limit)

\* ----------------------------------------------------- email verifier
\* verify_email: an empty address is invalid unasked; fault 51 is "no account".
verify_email(mail) == mail # <<>> /\ HasAccount(mail)

\* verify_emails: the batch query raises as soon as one address has no
\* account, and then each address is asked for alone.
verify_emails(mails) ==
    IF \A m \in mails : HasAccount(m) THEN {}
    ELSE {m \in mails : ~ verify_email(m)}

\* ----------------------------------------------- bug reference extractor
BugsBase == {"http://bugs.gentoo.org/", "https://bugs.gentoo.org/"}

\* BUG_LONG_URL_RE and BUG_SHORT_URL_RE on a URL [base, form, id, trailer]:
\* form is what follows the base before the digits, trailer what follows them.
MatchLong(url) ==
    url.base \in BugsBase /\ url.form = "show_bug.cgi?id=" /\ url.digits
        /\ url.trailer \in {"", "&", "#"}
MatchShort(url) ==
    url.base \in BugsBase /\ url.form = "" /\ url.digits
        /\ url.trailer \in {"", "?", "#"}

LineBugs(l) ==
    IF l.tag \in {"Bug:", "Closes:"} /\ (MatchLong(l.url) \/ MatchShort(l.url))
    THEN {l.url.id} ELSE {}

MessageBugs(message) == UNION {LineBugs(message[i]) : i \in 1..Len(message)}

ScanBugs(commits) == UNION {MessageBugs(commits[c]) : c \in 1..Len(commits)}

\* Bugzilla: the bugs that exist and the account each is assigned to.
ExistingBugs == {1, 2}
AssignedTo(bug) == IF bug = 2 THEN 2546 ELSE 4242
SecurityIds == {2546, 23358, 25934}

MissingSignoff(commits) ==
    \E c \in 1..Len(commits) :
        ~ \E i \in 1..Len(commits[c]) : commits[c][i].tag = "Signed-off-by:"

\* ------------------------------------------------- report and decision
GITHUB_USERNAME == "bot"

KeepMaints(maints, unique, limit) == maints

\* `if len(unique_maints) > assignee_limit: totally_all_maints = set()`
ClearTooMany(maints, unique, limit) ==
    IF Cardinality(unique) > limit THEN {} ELSE maints

\* The addresses of the changed metadata.xml files; a file that does not
\* parse adds none.
MetadataEmails(urls) ==
    UNION {IF Fetch(u).ok THEN Emails(Fetch(u).root) ELSE {} : u \in urls}

FirstN(s, n) == SubSeq(s, 1, IF Len(s) < n THEN Len(s) ELSE n)

\* Lines 191-357 after the resolution loop: the rest of the flags and the
\* comment body. keyerror: pkg_maints[p] is read for a package without entry.
Compose(login, commits, areasV, pkgs, urls, acc, limit, blimit) ==
    LET tooMany == Cardinality(acc.unique_maints) > limit
        listed == pkgs # {} /\ ~ tooMany
        cant == IF pkgs # {} THEN (tooMany \/ acc.cant_assign) ELSE TRUE
        order == SortedSet(pkgs)
        listing == IF listed
                   THEN [i \in 1..Len(order) |->
                           [pkg |-> order[i],
                            maints |-> IF order[i] \in DOMAIN acc.pkg_maints
                                       THEN acc.pkg_maints[order[i]]
                                       ELSE <<>>]]
                   ELSE <<>>
        total == ClearTooMany(acc.totally_all_maints, acc.unique_maints, limit)
                     \cup MetadataEmails(urls)
        bugsV == ScanBugs(commits)
        crosslinked == bugsV # {} /\ Cardinality(bugsV) <= blimit
        invalid_bug == crosslinked /\ ~ (bugsV \subseteq ExistingBugs)
        securityV == \E b \in bugsV \cap ExistingBugs : AssignedTo(b) \in SecurityIds
        invalid_mails == IF total # {} THEN SortedSet(verify_emails(total)) ELSE <<>>
        signoff == MissingSignoff(commits)
    IN  [keyerror |-> listed /\ \E q \in pkgs : q \notin DOMAIN acc.pkg_maints,
         cant_assign |-> cant,
         totally_all_maints |-> total,
         verified |-> total,
         bugs |-> bugsV,
         invalid_bug_linked |-> invalid_bug,
         security |-> securityV,
         invalid_email |-> invalid_mails # <<>>,
         missing_signoff |-> signoff,
         body |->
            [posted |-> TRUE,
             submitter |-> Handle(login),
             areas |-> areasV,
             packages |-> FirstN(order, shown_packages),
             more |-> Cardinality(pkgs) > shown_packages,
             maintainers |-> IF pkgs = {} THEN "@gentoo/github"
                             ELSE IF tooMany THEN "too many disjoint maintainers"
                             ELSE "listed",
             listing |-> listing,
             non_github |-> listed /\ cant,
             bugs |-> bugsV,
             too_many_bugs |-> bugsV # {} /\ ~ crosslinked,
             missing_bug |-> invalid_bug,
             open_a_bug |-> acc.existing_package /\ acc.not_self_maintained
                                /\ bugsV = {},
             new_packages_only |-> ~ acc.existing_package,
             invalid_mails |-> invalid_mails,
             missing_signoff |-> signoff]]

\* The labels line 361 removes.
OldLabels ==
    {"assigned", "need assignment", "self-maintained", "maintainer-needed",
     "new package", "no signoff", "bug linked", "no bug found",
     "invalid email", "invalid bug linked"}

If(cond, label) == IF cond THEN <<label>> ELSE <<>>

SelfMaintainedAlone(cant, notSelf) == ~ notSelf

\* Line 377, in the else of `if cant_assign`.
SelfMaintainedLabel(cant, notSelf) == ~ cant /\ ~ notSelf

\* Lines 367-393: the add_to_labels calls in their order. f holds the flags;
\* maint_needed sets not_self_maintained before it is read.
LabelsToAdd(f, t) ==
    LET notSelf == f.not_self_maintained \/ f.maint_needed
    IN  If(f.maint_needed, "maintainer-needed")
        \o If(f.new_package, "new package")
        \o If(f.cant_assign, "need assignment")
        \o If(SelfMaintainedLabel(f.cant_assign, notSelf), "self-maintained")
        \o If(~ f.cant_assign, "assigned")
        \o If(f.bugs # {}, "bug linked")
        \o If(f.bugs # {} /\ f.security, "security")
        \o If(f.bugs = {} /\ notSelf, "no bug found")
        \o If(f.invalid_bug_linked, "invalid bug linked")
        \o If(f.invalid_email, "invalid email")
        \o If(f.missing_signoff, "no signoff")
        \o If(HasNoci(t), "noci")

\* `co.user.login == GITHUB_USERNAME` and 'Pull Request assignment' in co.body
Deletable(co) == co.user = GITHUB_USERNAME /\ co.marker

AssigneeOnly(l, a) == a

\* Lines 141-147: the issue was triaged before.
AlreadyAssigned(l, a) ==
    a \/ l \cap {"assigned", "need assignment", "do not merge"} # {}

AssigneeLimit(l) ==
    IF "no assignee limit" \in l THEN no_limit ELSE assignee_limit_default
BugLimit(l) ==
    IF "no assignee limit" \in l THEN no_limit ELSE bug_limit_default

\* The bot's report comments, in the order of the page.
IsReport(co) == Deletable(co)
ReportTexts(cs) ==
    LET rs == SelectSeq(cs, IsReport) IN [i \in 1..Len(rs) |-> rs[i].text]

\* ------------------------------------------------------------- the run
NoBody == [posted |-> FALSE]
Unset == [set |-> FALSE]

\* The local variables at the start of assign_one.
FreshLocals ==
    /\ raised' = ""
    /\ assignee_limit' = assignee_limit_default
    /\ bug_limit' = bug_limit_default
    /\ areas' = {}
    /\ packages' = {}
    /\ metadata_xml_files' = {}
    /\ todo' = {}
    /\ pkg_maints' = EmptyResolution.pkg_maints
    /\ unique_maints' = {}
    /\ totally_all_maints' = {}
    /\ new_package' = FALSE
    /\ existing_package' = FALSE
    /\ maint_needed' = FALSE
    /\ cant_assign' = FALSE
    /\ not_self_maintained' = FALSE
    /\ invalid_email' = FALSE
    /\ invalid_bug_linked' = FALSE
    /\ bugs' = {}
    /\ security' = FALSE
    /\ missing_signoff' = FALSE
    /\ verified' = {}
    /\ body' = NoBody
    /\ adding' = <<>>

Resolution ==
    [pkg_maints |-> pkg_maints,
     unique_maints |-> unique_maints,
     totally_all_maints |-> totally_all_maints,
     new_package |-> new_package,
     existing_package |-> existing_package,
     maint_needed |-> maint_needed,
     cant_assign |-> cant_assign,
     not_self_maintained |-> not_self_maintained,
     broke |-> FALSE]

Flags(acc, rep) ==
    [maint_needed |-> acc.maint_needed, new_package |-> acc.new_package,
     cant_assign |-> rep.cant_assign,
     not_self_maintained |-> acc.not_self_maintained,
     bugs |-> rep.bugs, security |-> rep.security,
     invalid_bug_linked |-> rep.invalid_bug_linked,
     invalid_email |-> rep.invalid_email,
     missing_signoff |-> rep.missing_signoff]

Report(text) == [user |-> GITHUB_USERNAME, marker |-> TRUE, text |-> text]

Kept(cs) == SelectSeq(cs, LAMBDA co : ~ Deletable(co))

\* What one uninterrupted run of assign_one leaves on the tracker, the
\* packages resolved in sorted order: the report texts and the labels.
Outcome(t, l, cs, a, p) ==
    IF ~ HasReassign(t) /\ AlreadyAssigned(l, a)
    THEN [set |-> TRUE, texts |-> ReportTexts(cs), labels |-> l]
    ELSE LET t1 == IF HasReassign(t) THEN StripReassign(t) ELSE t
             scan == ScanFiles(p.files)
             acc == ResolveAll(SortedSet(scan.packages), EmptyResolution,
                               p.login, AssigneeLimit(l))
             rep == Compose(p.login, p.commits, scan.areas, scan.packages,
                            scan.metadata_xml_files, acc,
                            AssigneeLimit(l), BugLimit(l))
         IN  IF scan.raised \/ rep.keyerror THEN Unset
             ELSE [set |-> TRUE,
                   texts |-> ReportTexts(Append(Kept(cs), Report(rep.body))),
                   labels |-> (l \ OldLabels)
                                 \cup Range(LabelsToAdd(Flags(acc, rep), t1))]

AfterCheck(cs) ==
    IF \E i \in 1..Len(cs) : Deletable(cs[i]) THEN "delete" ELSE "scan"

\* Lines 135-138 and 149-154: `[please reassign]` is in the title; it is
\* edited out and the issue triaged again.
Reassign ==
    /\ pc = "start"
    /\ HasReassign(title)
    /\ title' = StripReassign(title)
    /\ mutated' = TRUE
    /\ assignee_limit' = AssigneeLimit(labels)
    /\ bug_limit' = BugLimit(labels)
    /\ pc' = AfterCheck(comments)
    /\ UNCHANGED <<labels, comments, assignee, pr, raised, scanned, todo,
                   resolved, reported, adding,
                   runs, startMarker, startLabels, settled, prev, goal,
                   pending>>

\* Lines 140-147: an assignee or a label of an earlier triage; return.
Skip ==
    /\ pc = "start"
    /\ ~ HasReassign(title)
    /\ AlreadyAssigned(labels, assignee)
    /\ pc' = "returned"
    /\ UNCHANGED <<tracker, pr, locals, history>>

\* Lines 140-154: nothing says the issue was triaged.
Proceed ==
    /\ pc = "start"
    /\ ~ HasReassign(title)
    /\ ~ AlreadyAssigned(labels, assignee)
    /\ assignee_limit' = AssigneeLimit(labels)
    /\ bug_limit' = BugLimit(labels)
    /\ pc' = AfterCheck(comments)
    /\ UNCHANGED <<tracker, pr, raised, scanned, todo, resolved, reported,
                   adding, history>>

\* Lines 156-161: the next of the bot's old reports is deleted.
DeleteComment ==
    /\ pc = "delete"
    /\ LET i == CHOOSE k \in 1..Len(comments) :
                    /\ Deletable(comments[k])
                    /\ \A j \in 1..(k - 1) : ~ Deletable(comments[j])
           left == SubSeq(comments, 1, i - 1)
                       \o SubSeq(comments, i + 1, Len(comments))
       IN  /\ comments' = left
           /\ pc' = AfterCheck(left)
    /\ mutated' = TRUE
    /\ UNCHANGED <<title, labels, assignee, pr, locals,
                   runs, startMarker, startLabels, settled, prev, goal,
                   pending>>

\* Lines 163-189: the file scan; an IndexError ends the run.
Scan ==
    /\ pc = "scan"
    /\ LET r == ScanFiles(pr.files)
       IN  IF r.raised
           THEN /\ pc' = "crashed"
                /\ raised' = "IndexError"
                /\ UNCHANGED <<scanned, todo>>
           ELSE /\ areas' = r.areas
                /\ packages' = r.packages
                /\ metadata_xml_files' = r.metadata_xml_files
                /\ todo' = r.packages
                /\ pc' = IF r.packages = {} THEN "report" ELSE "resolve"
                /\ UNCHANGED raised
    /\ UNCHANGED <<tracker, pr, assignee_limit, bug_limit, resolved, reported,
                   adding, history>>

\* Lines 217-259: one package of `for p in packages`, in the set's order.
Resolve ==
    /\ pc = "resolve"
    /\ \E p \in todo :
        LET r == ResolvePackage(p, Resolution, pr.login, assignee_limit)
        IN  /\ pkg_maints' = r.pkg_maints
            /\ unique_maints' = r.unique_maints
            /\ totally_all_maints' = r.totally_all_maints
            /\ new_package' = r.new_package
            /\ existing_package' = r.existing_package
            /\ maint_needed' = r.maint_needed
            /\ cant_assign' = r.cant_assign
            /\ not_self_maintained' = r.not_self_maintained
            /\ todo' = IF r.broke THEN {} ELSE todo \ {p}
            /\ pc' = IF r.broke \/ todo = {p} THEN "report" ELSE "resolve"
    /\ UNCHANGED <<tracker, pr, raised, assignee_limit, bug_limit, scanned,
                   reported, adding, history>>

\* Lines 261-357: the rest of the flags, the body, and create_comment.
PostReport ==
    /\ pc = "report"
    /\ LET rep == Compose(pr.login, pr.commits, areas, packages,
                          metadata_xml_files, Resolution,
                          assignee_limit, bug_limit)
       IN  IF rep.keyerror
           THEN /\ pc' = "crashed"
                /\ raised' = "KeyError"
                /\ UNCHANGED <<comments, mutated, cant_assign,
                               totally_all_maints, reported, adding>>
           ELSE /\ cant_assign' = rep.cant_assign
                /\ totally_all_maints' = rep.totally_all_maints
                /\ verified' = rep.verified
                /\ bugs' = rep.bugs
                /\ invalid_bug_linked' = rep.invalid_bug_linked
                /\ security' = rep.security
                /\ invalid_email' = rep.invalid_email
                /\ missing_signoff' = rep.missing_signoff
                /\ body' = rep.body
                /\ comments' = Append(comments, Report(rep.body))
                /\ mutated' = TRUE
                /\ adding' = LabelsToAdd(Flags(Resolution, rep), title)
                /\ pc' = IF labels \cap OldLabels # {} THEN "remove" ELSE "add"
                /\ UNCHANGED raised
    /\ UNCHANGED <<title, labels, assignee, pr, assignee_limit, bug_limit,
                   scanned, todo, pkg_maints, unique_maints, new_package,
                   existing_package, maint_needed, not_self_maintained,
                   runs, startMarker, startLabels, settled, prev, goal,
                   pending>>

\* Lines 359-365: one of the old labels is removed.
RemoveLabel ==
    /\ pc = "remove"
    /\ \E l \in labels \cap OldLabels :
        /\ labels' = labels \ {l}
        /\ pc' = IF (labels \ {l}) \cap OldLabels = {} THEN "add" ELSE "remove"
    /\ mutated' = TRUE
    /\ UNCHANGED <<title, comments, assignee, pr, locals,
                   runs, startMarker, startLabels, settled, prev, goal,
                   pending>>

\* Lines 367-394: the next add_to_labels call; after the last the run is done.
AddLabel ==
    /\ pc = "add"
    /\ adding # <<>>
    /\ labels' = labels \cup {Head(adding)}
    /\ adding' = Tail(adding)
    /\ not_self_maintained' = (not_self_maintained \/ maint_needed)
    /\ pc' = IF Tail(adding) = <<>> THEN "done" ELSE "add"
    /\ mutated' = TRUE
    /\ UNCHANGED <<title, comments, assignee, pr, raised, assignee_limit,
                   bug_limit, scanned, todo, pkg_maints, unique_maints,
                   totally_all_maints, new_package, existing_package,
                   maint_needed, cant_assign, reported,
                   runs, startMarker, startLabels, settled, prev, goal,
                   pending>>

InRun == pc \in {"delete", "scan", "resolve", "report", "remove", "add"}

\* Lines 398-402: a socket timeout ends the process where it stands.
Abort ==
    /\ InRun
    /\ pc' = "aborted"
    /\ FreshLocals
    /\ pending' = IF pending.set
                  THEN [pending EXCEPT !.aborts = @ + 1]
                  ELSE IF goal.set
                  THEN [set |-> TRUE, aborts |-> 1, texts |-> goal.texts,
                        labels |-> goal.labels]
                  ELSE pending
    /\ UNCHANGED <<tracker, pr, runs, mutated, startMarker, startLabels, settled,
                   prev, goal>>

Ended == pc \in {"done", "returned", "aborted", "crashed"}

\* The script is run again and comes to the issue.
NextRun ==
    /\ Ended
    /\ runs < MaxRuns
    /\ runs' = runs + 1
    /\ pc' = "start"
    /\ FreshLocals
    /\ mutated' = FALSE
    /\ startMarker' = HasReassign(title)
    /\ startLabels' = labels
    /\ settled' = IF pc = "done" THEN TRUE
                  ELSE IF pc \in {"aborted", "crashed"} /\ mutated THEN FALSE
                  ELSE settled
    /\ prev' = IF pc \in {"done", "returned"}
               THEN [set |-> TRUE, texts |-> ReportTexts(comments),
                     labels |-> labels]
               ELSE Unset
    /\ goal' = Outcome(title, labels, comments, assignee, pr)
    /\ UNCHANGED <<tracker, pr, pending>>

Next ==
    \/ Reassign
    \/ Skip
    \/ Proceed
    \/ DeleteComment
    \/ Scan
    \/ Resolve
    \/ PostReport
    \/ RemoveLabel
    \/ AddLabel
    \/ Abort
    \/ NextRun

\* ------------------------------------------------------ initial states
Plain == <<"x">>
Titles ==
    {Plain,
     <<"x", " ", "[", "p", "]">>,
     <<"[", "P", "]", " ", "x", "[", "n", "]">>,
     <<"x", "[", "N", "]">>,
     <<"[", "n", "[", "p", "]", "]">>,
     <<"[", "[", "p", "]", "p", "]">>,
     <<"[", "[", "[", "p", "]", "p", "]", "n", "]">>}

StaleText == [posted |-> TRUE, stale |-> TRUE]
OldReport == [user |-> GITHUB_USERNAME, marker |-> TRUE, text |-> StaleText]
BotNote == [user |-> GITHUB_USERNAME, marker |-> FALSE, text |-> StaleText]
Quote == [user |-> "reviewer", marker |-> TRUE, text |-> StaleText]
CommentLists == {<<>>, <<Quote, OldReport, BotNote, OldReport>>}

LabelSets ==
    (SUBSET {"assigned", "need assignment", "self-maintained",
             "maintainer-needed"})
    \cup {{"security"}, {"security", "assigned"}, {"do not merge"},
          {"no assignee limit"}, {"noci", "no bug found"}}

Url(base, form, id, trailer) ==
    [base |-> base, form |-> form, digits |-> TRUE, id |-> id, trailer |-> trailer]
Line(tag, url) == [tag |-> tag, url |-> url]
NoUrl == [base |-> "", form |-> "", digits |-> FALSE, id |-> 0, trailer |-> ""]
SignedOff == Line("Signed-off-by:", NoUrl)
Text == Line("", NoUrl)

CommitLists ==
    {<<<<Text, SignedOff>>>>,
     <<<<Text, Line("Bug:", Url("https://bugs.gentoo.org/", "", 1, "")), SignedOff>>>>,
     <<<<Line("Closes:", Url("https://bugs.gentoo.org/", "show_bug.cgi?id=", 2, "#")),
         SignedOff>>,
       <<Text>>>>,
     <<<<Line("Bug:", Url("http://bugs.gentoo.org/", "", 3, "?")),
         Line("See-also:", Url("https://bugs.gentoo.org/", "", 1, "")),
         Line("Bug:", Url("https://example.org/", "", 1, "")),
         SignedOff>>>>}

Ebuild(name) == <<"app-foo", name, "x.ebuild">>
Metadata(name) == <<"app-foo", name, "metadata.xml">>

FileLists ==
    {<<>>,
     <<Ebuild("own")>>,
     <<Ebuild("fresh"), Metadata("fresh")>>,
     <<Ebuild("orphan")>>,
     <<Ebuild("alice"), <<"eclass", "x.eclass">>>>,
     <<Metadata("bob"), Metadata("carol")>>,
     <<Ebuild("own"), Ebuild("orphan")>>,
     <<Ebuild("duo"), Ebuild("oud")>>}

PullRequest(files, commits) ==
    [login |-> "sub", files |-> files, commits |-> commits]

InitRun ==
    /\ pc = "start"
    /\ raised = ""
    /\ assignee_limit = assignee_limit_default
    /\ bug_limit = bug_limit_default
    /\ areas = {}
    /\ packages = {}
    /\ metadata_xml_files = {}
    /\ todo = {}
    /\ pkg_maints = EmptyResolution.pkg_maints
    /\ unique_maints = {}
    /\ totally_all_maints = {}
    /\ new_package = FALSE
    /\ existing_package = FALSE
    /\ maint_needed = FALSE
    /\ cant_assign = FALSE
    /\ not_self_maintained = FALSE
    /\ invalid_email = FALSE
    /\ invalid_bug_linked = FALSE
    /\ bugs = {}
    /\ security = FALSE
    /\ missing_signoff = FALSE
    /\ verified = {}
    /\ body = NoBody
    /\ adding = <<>>
    /\ runs = 1
    /\ mutated = FALSE
    /\ startMarker = HasReassign(title)
    /\ startLabels = labels
    /\ settled = FALSE
    /\ prev = Unset
    /\ goal = Outcome(title, labels, comments, assignee, pr)
    /\ pending = Unset

\* Any issue the tracker may hold, and a pull request of a few files.
Init ==
    /\ title \in Titles
    /\ labels \in LabelSets
    /\ comments \in CommentLists
    /\ assignee \in BOOLEAN
    /\ pr \in {PullRequest(f, c) : f \in FileLists, c \in CommitLists}
    /\ InitRun

Spec == Init /\ [][Next]_vars

\* A new issue, or one asked to be triaged again without the assignee limit.
Issues ==
    {[title |-> Plain, labels |-> {}, comments |-> <<>>],
     [title |-> <<"x", " ", "[", "p", "]">>,
      labels |-> {"no assignee limit", "assigned"},
      comments |-> <<OldReport>>]}

InitIssue ==
    /\ \E i \in Issues :
        /\ title = i.title
        /\ labels = i.labels
        /\ comments = i.comments
    /\ assignee = FALSE

OneCommit == <<<<Text, SignedOff>>>>

TreePackages == DOMAIN Tree \cup {<<"app-foo", "fresh">>}
ChangedMetadata == {<<"app-foo", "bob">>}

PackageFiles(S, M) ==
    LET ebuilds == SortedSet(S)
        metadata == SortedSet(M)
    IN  [i \in 1..Len(ebuilds) |-> Append(ebuilds[i], "x.ebuild")]
        \o [i \in 1..Len(metadata) |-> Append(metadata[i], "metadata.xml")]

\* A pull request over any set of packages of the tree.
InitResolve ==
    /\ InitIssue
    /\ \E S \in SUBSET TreePackages :
        \E M \in SUBSET (S \cap ChangedMetadata) :
            pr = PullRequest(PackageFiles(S, M), OneCommit)
    /\ InitRun

\* One run of assign_one to its end.
NextOnce ==
    \/ Reassign
    \/ Proceed
    \/ DeleteComment
    \/ Scan
    \/ Resolve
    \/ PostReport
    \/ RemoveLabel
    \/ AddLabel

SpecResolve == InitResolve /\ [][NextOnce]_vars

Paths ==
    {<<"app-foo">>,
     <<"app-foo", "metadata.xml">>,
     <<"app-foo", "own">>,
     <<"app-foo", "own", "x.ebuild">>,
     <<"app-foo", "fresh", "metadata.xml">>,
     <<"dev-bar", "lib", "files", "x.patch">>,
     <<"eclass">>,
     <<"eclass", "x.eclass">>,
     <<"profiles">>,
     <<"profiles", "use.local.desc">>,
     <<"profiles", "x">>,
     <<"metadata">>,
     <<"metadata", "md5-cache", "x">>,
     <<"metadata", "pkg_desc_index">>,
     <<"metadata", "x">>,
     <<"README">>,
     <<"x", "metadata.xml">>}

\* A pull request over any list of changed paths.
InitScan ==
    /\ InitIssue
    /\ pr \in {PullRequest(f, OneCommit) : f \in SeqsUpTo(Paths, MaxFiles)}
    /\ InitRun

SpecScan == InitScan /\ [][Next]_vars

\* -------------------------------------------------------------- claims
Vocabulary ==
    {"assigned", "need assignment", "self-maintained", "maintainer-needed",
     "new package", "no signoff", "bug linked", "no bug found",
     "invalid email", "invalid bug linked", "security", "noci"}

FlagsNow ==
    [maint_needed |-> maint_needed, new_package |-> new_package,
     cant_assign |-> cant_assign, not_self_maintained |-> not_self_maintained,
     bugs |-> bugs, security |-> security,
     invalid_bug_linked |-> invalid_bug_linked,
     invalid_email |-> invalid_email, missing_signoff |-> missing_signoff]

Both(a, b) == {a, b} \subseteq labels
Reported == pc \in {"remove", "add", "done"}
Completed == pc \in {"done", "returned"}
TooMany == Cardinality(unique_maints) > assignee_limit

\* C1: after a completed run the issue never carries `self-maintained`
\* together with `need assignment`, nor together with `maintainer-needed`,
\* whatever labels it carried before.
C1_Exclusive ==
    pc = "done" =>
        /\ ~ Both("self-maintained", "need assignment")
        /\ ~ Both("self-maintained", "maintainer-needed")

C1_Witness ==
    /\ pc = "done"
    /\ "self-maintained" \in labels
    /\ {"need assignment", "maintainer-needed"} \subseteq startLabels

\* The maintainer addresses of the pull request's own versions of the
\* package metadata.xml files it changes.
ChangedMetadataEmails ==
    UNION {IF Len(f) >= 3 /\ f[1] \in categories /\ f[2] # "metadata.xml"
              /\ f[3] = "metadata.xml" /\ Fetch(RawUrl(f)).ok
           THEN Emails(Fetch(RawUrl(f)).root) ELSE {} : f \in Range(pr.files)}

\* C2 as stated: with more unique maintainer groups than the assignee limit,
\* cannot_assign is true and no address at all is handed to verification.
C2_NothingVerified ==
    Reported /\ TooMany =>
        cant_assign /\ verified = {} /\ ~ invalid_email

\* C2 amended: with more unique maintainer groups than the assignee limit,
\* cannot_assign is true and every address of the reference tree is dropped;
\* the addresses handed to verification are exactly those of the changed
\* package metadata.xml files, and `invalid email` is set iff one of those
\* has no account.
C2_OnlyChangedVerified ==
    Reported /\ TooMany =>
        /\ cant_assign
        /\ verified = ChangedMetadataEmails
        /\ invalid_email <=> \E m \in ChangedMetadataEmails : ~ verify_email(m)

C2_Witness ==
    /\ pc = "done"
    /\ TooMany
    /\ verified # {}
    /\ invalid_email
    /\ "invalid email" \in labels

\* C3: a second run on the state the first completed run left gives the
\* same report texts and the same labels.
C3_Idempotent ==
    Completed /\ prev.set =>
        ReportTexts(comments) = prev.texts /\ labels = prev.labels

\* C4: the decision is that of any other resolution order of the packages
\* (here: of the sorted order), and so are the labels of the finished run.
C4_OrderIndependent ==
    Reported =>
        LET acc == ResolveAll(SortedSet(packages), EmptyResolution, pr.login,
                              assignee_limit)
        IN  /\ new_package = acc.new_package
            /\ existing_package = acc.existing_package
            /\ maint_needed = acc.maint_needed
            /\ cant_assign = (packages = {} \/ acc.cant_assign
                                \/ Cardinality(acc.unique_maints) > assignee_limit)
            /\ (not_self_maintained \/ maint_needed)
                   = (acc.not_self_maintained \/ acc.maint_needed)
            /\ pc = "done" /\ goal.set => labels = goal.labels

\* C5: after a completed run a label of the bot's vocabulary is on the issue
\* only if this run's flags call for it.
C5_FullReplace ==
    pc = "done" =>
        \A l \in Vocabulary \cap labels : l \in Range(LabelsToAdd(FlagsNow, title))

\* C6: after one aborted run, a later run that completes leaves the report
\* and the bot's labels as the uninterrupted run would have left them.
C6_Reconciled ==
    Completed /\ pending.set /\ pending.aborts = 1 =>
        /\ ReportTexts(comments) = pending.texts
        /\ labels \cap Vocabulary = pending.labels \cap Vocabulary

\* C7: `self-maintained` is applied only if the submitter's handle is among
\* the resolved maintainers of every package the pull request touches.
C7_SelfMaintained ==
    pc = "done" /\ "self-maintained" \in labels =>
        \A p \in packages :
            p \in DOMAIN Tree /\ Handle(pr.login) \in Range(AllMs(Tree[p]))

\* Rules 1-5 of the path classifier for one path.
Second(path, seg) == Len(path) >= 2 /\ path[2] = seg
Contribution(path) ==
    LET none == [areas |-> {}, packages |-> {}, urls |-> {}]
    IN  IF path[1] \in categories
        THEN IF Second(path, "metadata.xml")
             THEN [none EXCEPT !.areas = {"ebuilds", "category-metadata"}]
             ELSE IF Len(path) <= 2
             THEN [none EXCEPT !.areas = {"ebuilds", "other files"}]
             ELSE [areas |-> {"ebuilds"},
                   packages |-> {SubSeq(path, 1, 2)},
                   urls |-> IF path[3] = "metadata.xml"
                            THEN {RawUrl(path)} ELSE {}]
        ELSE IF path[1] = "eclass"
        THEN [none EXCEPT !.areas = {"eclasses"}]
        ELSE IF path[1] = "profiles"
        THEN IF Second(path, "use.local.desc") THEN none
             ELSE [none EXCEPT !.areas = {"profiles"}]
        ELSE IF path[1] = "metadata"
        THEN IF Second(path, "md5-cache") \/ Second(path, "pkg_desc_index")
             THEN none
             ELSE [none EXCEPT !.areas = {"other files"}]
        ELSE [none EXCEPT !.areas = {"other files"}]

\* C8: for every list of changed paths the scan yields the union of the
\* paths' contributions (and so does not depend on their order or number).
C8_ScanIsUnion ==
    pc \in {"resolve", "report", "remove", "add", "done", "crashed"} =>
        /\ raised # "IndexError"
        /\ pc # "crashed" =>
            /\ areas = UNION {Contribution(f).areas : f \in Range(pr.files)}
            /\ packages = UNION {Contribution(f).packages : f \in Range(pr.files)}
            /\ metadata_xml_files
                   = UNION {Contribution(f).urls : f \in Range(pr.files)}

\* C9: every package listed with maintainers in the report has an entry in
\* pkg_maints, which is its resolved display list or one of the two sentinel
\* groups, and the listing is never reached with an entry missing.
C9_ListedHaveEntry ==
    /\ raised # "KeyError"
    /\ body.posted =>
        \A i \in 1..Len(body.listing) :
            LET e == body.listing[i]
            IN  /\ e.pkg \in DOMAIN pkg_maints
                /\ e.maints = pkg_maints[e.pkg]
                /\ \/ e.maints \in {NewPackageGroup, MaintainerNeededGroup}
                   \/ /\ e.pkg \in DOMAIN Tree
                      /\ e.maints # <<>>
                      /\ e.maints = AllMs(Tree[e.pkg])

C9_Witness ==
    /\ pc = "done"
    /\ \E i, j, k \in 1..Len(body.listing) :
        /\ body.listing[i].maints = NewPackageGroup
        /\ body.listing[j].maints = MaintainerNeededGroup
        /\ body.listing[k].pkg \in DOMAIN Tree
        /\ body.listing[k].maints = AllMs(Tree[body.listing[k].pkg])
        /\ Len(body.listing[k].maints) = 2

\* C10: a completed run leaves exactly one of `assigned` and `need
\* assignment` (`need assignment` iff cannot_assign); and a later run on the
\* labels it left, the title without `[please reassign]`, returns before any
\* tracker mutation.
C10_AssignedOnce ==
    /\ pc = "done" =>
        /\ "need assignment" \in labels <=> cant_assign
        /\ "assigned" \in labels <=> ~ cant_assign
    /\ settled /\ ~ startMarker => ~ mutated /\ pc \in {"start", "returned"}

C10_Witness ==
    /\ settled
    /\ ~ startMarker
    /\ pc = "returned"
    /\ ~ assignee
    /\ startLabels \cap {"assigned", "need assignment"} # {}

====
